---------------------------- MODULE Spec2Model ----------------------------
(***************************************************************************)
(* Focus-session lifecycle of SessionScreen (src/unnamed/part_000): the    *)
(* main countdown interval, the app-state listener, the grace interval of  *)
(* free users, stopSession, cleanup, the skip button, the asynchronous     *)
(* audio set-up and teardown, and the user profile of AuthContext, whose   *)
(* read may still be pending when the screen mounts.                       *)
(*                                                                         *)
(* Time is counted in periods of the main interval.  While the main        *)
(* interval is scheduled its callback opens each period (MainTick);        *)
(* afterwards Second opens it.  Every other scheduled interval has its     *)
(* callback run once inside each period that begins after it was armed.    *)
(* App-state events, button presses and the settling of audio promises     *)
(* interleave freely with the callbacks.                                   *)
(*                                                                         *)
(* AppSpec covers the way into a session: AuthProvider's listener, the     *)
(* navigator's choice of screens and the selection made on HomeScreen.     *)
(***************************************************************************)
EXTENDS Integers, Sequences, FiniteSets, TLC

\* ------------------------------------------------------------------ bounds
MaxDuration == 1        \* largest route parameter `duration`, in minutes
MaxLeaked == 1          \* grace intervals whose handle has been overwritten
MaxStops == 2           \* stopSession invocations followed in one session
MaxFetchDelay == 2      \* periods a profile read may still be pending after mount
MaxSessions == 1        \* sessions started from the selection screen in one run

\* -------------------------------------------------------- program constants
GRACE_PERIOD_SECONDS == 10
SecondsPerMinute == 60
Null == -1              \* `null`; also a state discarded at unmount

musicTracks == {"focus1", "focus2"}
TrackIdInputs == {"focus1", "missing"}
Durations == 0..MaxDuration
UserDataValues == {"null", "free", "premium"}
DURATION_OPTIONS == {30, 60, 90, 120}
NoTrack == ""           \* selectedTrackId is null

VARIABLES
    user,                \* AuthContext: a user is signed in (user is not null)
    loading,             \* AuthContext: loading
    selectedDuration,    \* HomeScreen: useState<number>(60)
    selectedTrackId,     \* HomeScreen: useState<string | null>('focus1')
    sessions,            \* sessions started so far (observer)
    duration,            \* route.params.duration (minutes)
    trackId,             \* route.params.trackId
    userData,            \* useAuth().userData: null while fetchUserData is pending
    premiumAtStart,      \* isPremium as first rendered by the screen (observer)
    mounted,             \* the screen is mounted (effects not yet cleaned up)
    timeRemaining,       \* useState(duration * 60)
    graceTimeRemaining,  \* useState<number | null>(null)
    timerIntervalRef,    \* timerIntervalRef.current holds a handle
    liveMain,            \* the main interval is scheduled in the runtime
    graceTimerRef,       \* graceTimerRef.current holds a handle (then scheduled)
    graceDue,            \* that interval's callback is due in this period
    leaked,              \* scheduled grace intervals no ref points to
    leakedDue,           \* how many of them are due in this period
    soundRef,            \* soundRef.current holds the Sound
    sound,               \* the engine's Sound: none, playing, stopped, unloaded
    audioPc,             \* initializeAudio: loading, done
    audioAlert,          \* error alert raised by initializeAudio
    stops,               \* stopSession invocations: [success, caller, pc]
    cleanupPc,           \* cleanup(): idle, stopAsync, unloadAsync, done, failed
    dialog,              \* alert opened by handleSkip: none, premiumFeature, skipConfirm
    appState,            \* last AppState value delivered
    awaySeconds,         \* periods begun since the app left 'active' (observer)
    graceTicks,          \* grace callbacks run since the last arming (observer)
    mainTicks            \* main-interval callbacks run since mount (observer)

vars == <<user, loading, selectedDuration, selectedTrackId, sessions,
          duration, trackId, userData, premiumAtStart, mounted,
          timeRemaining, graceTimeRemaining,
          timerIntervalRef, liveMain, graceTimerRef, graceDue, leaked, leakedDue,
          soundRef, sound, audioPc, audioAlert, stops, cleanupPc, dialog,
          appState, awaySeconds, graceTicks, mainTicks>>

appVars == <<user, loading, selectedDuration, selectedTrackId, sessions>>
screenVars == <<duration, trackId, premiumAtStart, mounted, timeRemaining,
                graceTimeRemaining, timerIntervalRef, liveMain, graceTimerRef,
                graceDue, leaked, leakedDue, soundRef, sound, audioPc, audioAlert,
                stops, cleanupPc, dialog, appState, awaySeconds, graceTicks,
                mainTicks>>
configVars == <<duration, trackId, userData, premiumAtStart>>
timerVars == <<timerIntervalRef, liveMain, graceTimerRef, graceDue, leaked, leakedDue>>
audioVars == <<soundRef, sound, audioPc, audioAlert>>

\* ------------------------------------------------------------------ helpers
\* Mutant: an absent profile is treated as premium.
isPremium_AbsentIsPremium == userData # "free"

\* const isPremium = userData?.isPremium ?? false, evaluated at every render.
isPremium == userData = "premium"

getTrackAssetById(id) == id \in musicTracks

Min(a, b) == IF a < b THEN a ELSE b

\* Mutant: the minutes are taken for seconds.
InitialTimeRemaining_NoConversion(d) == d

\* useState(duration * 60)
InitialTimeRemaining(d) == d * SecondsPerMinute

Alerted == {i \in DOMAIN stops : stops[i].pc = "alerted"}

\* -------------------------------------------------------------------- Init
Init ==
    /\ user = TRUE
    /\ loading = FALSE
    /\ selectedDuration = 60
    /\ selectedTrackId = "focus1"
    /\ sessions = 1
    /\ duration \in Durations
    /\ trackId \in TrackIdInputs
    /\ userData \in UserDataValues
    /\ premiumAtStart = (userData = "premium")
    /\ mounted = TRUE
    /\ timeRemaining = InitialTimeRemaining(duration)
    /\ graceTimeRemaining = Null
    /\ timerIntervalRef = TRUE
    /\ liveMain = TRUE
    /\ graceTimerRef = FALSE
    /\ graceDue = FALSE
    /\ leaked = 0
    /\ leakedDue = 0
    /\ soundRef = FALSE
    /\ sound = "none"
    /\ audioPc = "loading"
    /\ audioAlert = "none"
    /\ stops = <<>>
    /\ cleanupPc = "idle"
    /\ dialog = "none"
    /\ appState = "active"
    /\ awaySeconds = 0
    /\ graceTicks = 0
    /\ mainTicks = 0


\* ------------------------------------------------------------- user profile
\* fetchUserData, started by the auth-state listener at sign-in, settles:
\* setUserData stores the document read (or the default { isPremium: false }),
\* the listener goes on to setLoading(false) and the screens render again.
fetchUserDataSettles ==
    /\ user
    /\ userData = "null"
    /\ userData' \in {"free", "premium"}
    /\ loading' = FALSE
    /\ UNCHANGED <<user, selectedDuration, selectedTrackId, sessions, duration,
                   trackId, premiumAtStart, mounted, timeRemaining,
                   graceTimeRemaining, timerVars, audioVars, stops, cleanupPc, dialog,
                   appState, awaySeconds, graceTicks, mainTicks>>

\* ------------------------------------------------------------ audio set-up
\* initializeAudio after its suspensions (setAudioModeAsync, then createAsync
\* for a known track) have settled.  An unknown id raises 'Music track not
\* found' and returns; a rejection raises 'Failed to load music track';
\* otherwise the sound is loaded playing and looping and is stored in
\* soundRef.current, whatever has happened to the session in the meantime.
initializeAudioSettles ==
    /\ audioPc = "loading"
    /\ audioPc' = "done"
    /\ \/ /\ getTrackAssetById(trackId)
          /\ soundRef' = TRUE
          /\ sound' = "playing"
          /\ UNCHANGED audioAlert
       \/ /\ ~getTrackAssetById(trackId)
          /\ audioAlert' = "notFound"
          /\ UNCHANGED <<soundRef, sound>>
       \/ /\ audioAlert' = "loadFailed"      \* a promise rejects: catch block
          /\ UNCHANGED <<soundRef, sound>>
    /\ UNCHANGED <<appVars, configVars, mounted, timeRemaining, graceTimeRemaining, timerVars,
                   stops, cleanupPc, dialog, appState, awaySeconds, graceTicks, mainTicks>>

\* ------------------------------------------------------------- stopSession
\* The synchronous prefix of stopSession(success): both refs' intervals are
\* cleared, then the function suspends on stopAsync when a sound is held and
\* otherwise goes straight to its alert.
stopSession(success, caller) ==
    /\ Len(stops) < MaxStops
    /\ timerIntervalRef' = FALSE
    /\ liveMain' = (liveMain /\ ~timerIntervalRef)
    /\ graceTimerRef' = FALSE
    /\ graceDue' = FALSE
    /\ stops' = Append(stops, [success |-> success, caller |-> caller,
                               pc |-> IF soundRef THEN "stopAsync" ELSE "alerted"])

\* await soundRef.current.stopAsync() of invocation i settles.  The next
\* statement dereferences soundRef.current again.
StopAsyncSettles(i) ==
    /\ stops[i].pc = "stopAsync"
    /\ \/ /\ soundRef
          /\ stops' = [stops EXCEPT ![i].pc = "unloadAsync"]
          /\ sound' = IF sound = "playing" THEN "stopped" ELSE sound
       \/ /\ ~soundRef                       \* null.unloadAsync(): TypeError
          /\ stops' = [stops EXCEPT ![i].pc = "threw"]
          /\ sound' = IF sound = "playing" THEN "stopped" ELSE sound
       \/ /\ stops' = [stops EXCEPT ![i].pc = "threw"]   \* stopAsync rejects
          /\ UNCHANGED sound
    /\ UNCHANGED <<appVars, configVars, mounted, timeRemaining, graceTimeRemaining, timerVars,
                   soundRef, audioPc, audioAlert, cleanupPc, dialog, appState,
                   awaySeconds, graceTicks, mainTicks>>

\* await soundRef.current.unloadAsync() settles; then soundRef.current = null
\* and the outcome alert is raised.
UnloadAsyncSettles(i) ==
    /\ stops[i].pc = "unloadAsync"
    /\ \/ /\ stops' = [stops EXCEPT ![i].pc = "alerted"]
          /\ sound' = "unloaded"
          /\ soundRef' = FALSE
       \/ /\ stops' = [stops EXCEPT ![i].pc = "threw"]   \* unloadAsync rejects
          /\ UNCHANGED <<sound, soundRef>>
    /\ UNCHANGED <<appVars, configVars, mounted, timeRemaining, graceTimeRemaining, timerVars,
                   audioPc, audioAlert, cleanupPc, dialog, appState, awaySeconds,
                   graceTicks, mainTicks>>

\* ------------------------------------------------------------ main interval
\* Mutant: completion is detected one tick late.
TimerCompletes_Late(prev) == prev <= 0

TimerCompletes(prev) == prev <= 1

\* Mutant: the countdown is reset to its initial value when it completes.
NextTimeRemaining_Restart(prev) ==
    IF prev <= 1 THEN duration * SecondsPerMinute ELSE prev - 1

NextTimeRemaining(prev) == IF prev <= 1 THEN 0 ELSE prev - 1

\* The two observers follow a free user's session until its first stopSession.
Observed == ~isPremium /\ mounted /\ stops = <<>>

AwayAfterPeriod(stopping) ==
    IF appState # "active" /\ Observed /\ ~stopping
      THEN Min(awaySeconds + 1, GRACE_PERIOD_SECONDS) ELSE 0

\* A profile read that is pending when the screen mounts settles within
\* MaxFetchDelay periods: no later period opens while it is pending.
PeriodMayOpen ==
    (mounted /\ userData = "null") => (liveMain /\ mainTicks < MaxFetchDelay)

\* The callback of the interval armed by startTimer.  It opens a period, so
\* every grace interval still scheduled after it becomes due.
MainTick ==
    /\ liveMain
    /\ PeriodMayOpen
    /\ ~graceDue /\ leakedDue = 0
    /\ timeRemaining' = NextTimeRemaining(timeRemaining)
    /\ IF TimerCompletes(timeRemaining)
         THEN stopSession(TRUE, "timer")           \* handleSessionComplete
         ELSE /\ graceDue' = graceTimerRef
              /\ UNCHANGED <<timerIntervalRef, liveMain, graceTimerRef, stops>>
    /\ leakedDue' = leaked
    /\ awaySeconds' = AwayAfterPeriod(TimerCompletes(timeRemaining))
    /\ mainTicks' = mainTicks + 1
    /\ UNCHANGED <<appVars, configVars, mounted, graceTimeRemaining, leaked, audioVars,
                   cleanupPc, dialog, appState, graceTicks>>

\* A period opens while the main interval is no longer scheduled.
Second ==
    /\ ~liveMain
    /\ PeriodMayOpen
    /\ graceTimerRef \/ leaked > 0
    /\ ~graceDue /\ leakedDue = 0
    /\ graceDue' = graceTimerRef
    /\ leakedDue' = leaked
    /\ awaySeconds' = AwayAfterPeriod(FALSE)
    /\ UNCHANGED <<appVars, configVars, mounted, timeRemaining, graceTimeRemaining,
                   timerIntervalRef, liveMain, graceTimerRef, leaked, audioVars,
                   stops, cleanupPc, dialog, appState, graceTicks, mainTicks>>

\* ----------------------------------------------------------- grace interval
\* Mutant: the grace countdown is declared expired one tick early.
GraceExpires_Early(prev) == prev # Null /\ prev <= 2

GraceExpires(prev) == prev # Null /\ prev <= 1

NextGrace(prev) ==
    IF prev = Null THEN Null ELSE IF prev <= 1 THEN 0 ELSE prev - 1

TicksAfter(prev) ==
    IF Observed /\ prev # Null /\ ~GraceExpires(prev) THEN graceTicks + 1 ELSE 0

\* The callback of the interval graceTimerRef.current points to.
\* handleGracePeriodExpired: clearGraceTimer, then stopSession(false).
GraceTick ==
    /\ graceTimerRef /\ graceDue
    /\ graceTimeRemaining' = NextGrace(graceTimeRemaining)
    /\ graceTicks' = TicksAfter(graceTimeRemaining)
    /\ IF GraceExpires(graceTimeRemaining)
         THEN stopSession(FALSE, "grace")
         ELSE /\ graceDue' = FALSE
              /\ UNCHANGED <<timerIntervalRef, liveMain, graceTimerRef, stops>>
    /\ UNCHANGED <<appVars, configVars, mounted, timeRemaining, leaked, leakedDue, audioVars,
                   cleanupPc, dialog, appState, awaySeconds, mainTicks>>

\* The callback of a grace interval whose handle was overwritten.  It runs
\* the same updater on the same state; clearGraceTimer cannot reach it.  Once
\* the screen is unmounted the state no longer changes and the runtime may or
\* may not evaluate the updater.
LeakedGraceTick ==
    /\ leakedDue > 0
    /\ leakedDue' = leakedDue - 1
    /\ \/ /\ mounted
          /\ graceTimeRemaining' = NextGrace(graceTimeRemaining)
          /\ graceTicks' = TicksAfter(graceTimeRemaining)
          /\ IF GraceExpires(graceTimeRemaining)
               THEN stopSession(FALSE, "grace")
               ELSE UNCHANGED <<timerIntervalRef, liveMain, graceTimerRef, graceDue, stops>>
       \/ /\ ~mounted
          /\ UNCHANGED <<graceTimeRemaining, graceTicks, mainTicks>>
          /\ \/ /\ GraceExpires(graceTimeRemaining)
                /\ stopSession(FALSE, "grace")
             \/ UNCHANGED <<timerIntervalRef, liveMain, graceTimerRef, graceDue, stops>>
    /\ UNCHANGED <<appVars, configVars, mounted, timeRemaining, leaked, audioVars, cleanupPc,
                   dialog, appState, awaySeconds, mainTicks>>

\* ------------------------------------------------------- app-state listener
\* Mutant: the premium check of handleAppBackground is dropped.
handleAppBackground_NoPremiumCheck ==
    /\ graceTimerRef => leaked < MaxLeaked
    /\ graceTimeRemaining' = GRACE_PERIOD_SECONDS
    /\ leaked' = IF graceTimerRef THEN leaked + 1 ELSE leaked
    /\ leakedDue' = IF graceTimerRef /\ graceDue THEN leakedDue + 1 ELSE leakedDue
    /\ graceTimerRef' = TRUE
    /\ graceDue' = FALSE
    /\ graceTicks' = 0

\* handleAppBackground: a free user's grace countdown is set to the constant
\* and a new interval is stored in graceTimerRef.current; an interval the ref
\* already held stays scheduled.
handleAppBackground ==
    IF ~isPremium
      THEN /\ graceTimerRef => leaked < MaxLeaked
           /\ graceTimeRemaining' = GRACE_PERIOD_SECONDS
           /\ leaked' = IF graceTimerRef THEN leaked + 1 ELSE leaked
           /\ leakedDue' = IF graceTimerRef /\ graceDue THEN leakedDue + 1 ELSE leakedDue
           /\ graceTimerRef' = TRUE
           /\ graceDue' = FALSE
           /\ graceTicks' = 0
      ELSE UNCHANGED <<graceTimeRemaining, graceTimerRef, graceDue, leaked, leakedDue,
                       graceTicks, mainTicks>>

\* handleAppForeground: clearGraceTimer and setGraceTimeRemaining(null) when
\* the user is free and the ref holds a handle.
handleAppForeground ==
    IF ~isPremium /\ graceTimerRef
      THEN /\ graceTimerRef' = FALSE
           /\ graceDue' = FALSE
           /\ graceTimeRemaining' = Null
           /\ graceTicks' = 0
           /\ UNCHANGED <<leaked, leakedDue>>
      ELSE UNCHANGED <<graceTimeRemaining, graceTimerRef, graceDue, leaked, leakedDue,
                       graceTicks, mainTicks>>

AppStates == {"active", "inactive", "background"}

\* handleAppStateChange(nextAppState), called by the AppState subscription,
\* which exists from mount to unmount.
handleAppStateChange(nextAppState) ==
    /\ mounted
    /\ nextAppState # appState
    /\ appState' = nextAppState
    /\ awaySeconds' = IF nextAppState = "active" \/ appState = "active" \/ ~Observed
                        THEN 0 ELSE awaySeconds
    /\ IF nextAppState \in {"background", "inactive"}
         THEN handleAppBackground
         ELSE handleAppForeground
    /\ UNCHANGED <<appVars, configVars, mounted, timeRemaining, timerIntervalRef, liveMain,
                   audioVars, stops, cleanupPc, dialog, mainTicks>>

\* --------------------------------------------------------------- skip button
\* Mutant: the premium check of handleSkip is dropped.
handleSkip_NoPremiumCheck ==
    /\ mounted
    /\ dialog = "none"
    /\ Alerted = {}
    /\ dialog' = "skipConfirm"
    /\ UNCHANGED <<appVars, configVars, mounted, timeRemaining, graceTimeRemaining, timerVars,
                   audioVars, stops, cleanupPc, appState, awaySeconds, graceTicks,
                   mainTicks>>

\* handleSkip: a free user gets the 'Premium Feature' alert, a premium user
\* the confirmation.  No outcome alert or skip dialog is on screen when the
\* button is pressed (alerts are modal).
handleSkip ==
    /\ mounted
    /\ dialog = "none"
    /\ Alerted = {}
    /\ dialog' = IF ~isPremium THEN "premiumFeature" ELSE "skipConfirm"
    /\ UNCHANGED <<appVars, configVars, mounted, timeRemaining, graceTimeRemaining, timerVars,
                   audioVars, stops, cleanupPc, appState, awaySeconds, graceTicks,
                   mainTicks>>

\* 'OK' of the premium-feature alert, 'Cancel' of the confirmation.
DialogDismiss ==
    /\ dialog # "none"
    /\ dialog' = "none"
    /\ UNCHANGED <<appVars, configVars, mounted, timeRemaining, graceTimeRemaining, timerVars,
                   audioVars, stops, cleanupPc, appState, awaySeconds, graceTicks,
                   mainTicks>>

\* 'Skip' of the confirmation: stopSession(true).
SkipConfirm ==
    /\ dialog = "skipConfirm"
    /\ dialog' = "none"
    /\ stopSession(TRUE, "skip")
    /\ UNCHANGED <<appVars, configVars, mounted, timeRemaining, graceTimeRemaining, leaked,
                   leakedDue, audioVars, cleanupPc, appState, awaySeconds, graceTicks,
                   mainTicks>>

\* ------------------------------------------------------------------ unmount
\* cleanup(), the mount effect's destructor, up to its first suspension; the
\* AppState subscription is removed by the other effect's destructor.
cleanup ==
    /\ mounted' = FALSE
    /\ liveMain' = (liveMain /\ ~timerIntervalRef)
    /\ graceTimerRef' = FALSE
    /\ graceDue' = FALSE
    /\ cleanupPc' = IF soundRef THEN "stopAsync" ELSE "done"
    /\ timeRemaining' = Null                 \* the countdown state is discarded
    /\ awaySeconds' = 0
    /\ graceTicks' = 0
    /\ mainTicks' = 0
    /\ UNCHANGED <<appVars, configVars, graceTimeRemaining, timerIntervalRef, leaked, leakedDue,
                   audioVars, stops, dialog, appState>>

\* 'OK' of an outcome alert: navigation.navigate('Home') unmounts the screen.
AcknowledgeOutcome ==
    /\ mounted
    /\ Alerted # {}
    /\ cleanup

\* The screen is removed before any outcome alert (hardware back, sign-out).
DismissEarly ==
    /\ mounted
    /\ Alerted = {}
    /\ cleanup

CleanupStopSettles ==
    /\ cleanupPc = "stopAsync"
    /\ \/ /\ soundRef
          /\ cleanupPc' = "unloadAsync"
          /\ sound' = IF sound = "playing" THEN "stopped" ELSE sound
       \/ /\ ~soundRef                       \* null.unloadAsync(): caught
          /\ cleanupPc' = "failed"
          /\ sound' = IF sound = "playing" THEN "stopped" ELSE sound
       \/ /\ cleanupPc' = "failed"           \* stopAsync rejects: caught
          /\ UNCHANGED sound
    /\ UNCHANGED <<appVars, configVars, mounted, timeRemaining, graceTimeRemaining, timerVars,
                   soundRef, audioPc, audioAlert, stops, dialog, appState,
                   awaySeconds, graceTicks, mainTicks>>

CleanupUnloadSettles ==
    /\ cleanupPc = "unloadAsync"
    /\ \/ /\ cleanupPc' = "done"
          /\ sound' = "unloaded"
       \/ /\ cleanupPc' = "failed"           \* unloadAsync rejects: caught
          /\ UNCHANGED sound
    /\ UNCHANGED <<appVars, configVars, mounted, timeRemaining, graceTimeRemaining, timerVars,
                   soundRef, audioPc, audioAlert, stops, dialog, appState,
                   awaySeconds, graceTicks, mainTicks>>

\* ------------------------------------------------------------ specification
Next ==
    \/ fetchUserDataSettles
    \/ initializeAudioSettles
    \/ MainTick
    \/ Second
    \/ GraceTick
    \/ LeakedGraceTick
    \/ \E nextAppState \in AppStates : handleAppStateChange(nextAppState)
    \/ handleSkip
    \/ DialogDismiss
    \/ SkipConfirm
    \/ \E i \in DOMAIN stops : StopAsyncSettles(i)
    \/ \E i \in DOMAIN stops : UnloadAsyncSettles(i)
    \/ AcknowledgeOutcome
    \/ DismissEarly
    \/ CleanupStopSettles
    \/ CleanupUnloadSettles

Spec == Init /\ [][Next]_vars


\* The interval callbacks are run by the runtime's event loop for as long as
\* their interval is scheduled.
FairSpec ==
    /\ Spec
    /\ WF_vars(MainTick)
    /\ WF_vars(Second)
    /\ WF_vars(GraceTick)
    /\ WF_vars(LeakedGraceTick)

\* -------------------------------------------------------------- application
\* The application around the session screen: AuthProvider's state, the
\* navigator's choice of screens and the selection made on HomeScreen.  AppSpec
\* follows a run from the start of the application to the mounting of the
\* session screen and its dismissal; what a mounted session does in the course
\* of time is the subject of Spec.
AppInit ==
    /\ user = FALSE
    /\ loading = TRUE
    /\ userData = "null"
    /\ selectedDuration = 60
    /\ selectedTrackId = "focus1"
    /\ sessions = 0
    /\ duration = Null
    /\ trackId = NoTrack
    /\ premiumAtStart = FALSE
    /\ mounted = FALSE
    /\ timeRemaining = Null
    /\ graceTimeRemaining = Null
    /\ timerIntervalRef = FALSE
    /\ liveMain = FALSE
    /\ graceTimerRef = FALSE
    /\ graceDue = FALSE
    /\ leaked = 0
    /\ leakedDue = 0
    /\ soundRef = FALSE
    /\ sound = "none"
    /\ audioPc = "done"
    /\ audioAlert = "none"
    /\ stops = <<>>
    /\ cleanupPc = "idle"
    /\ dialog = "none"
    /\ appState = "active"
    /\ awaySeconds = 0
    /\ graceTicks = 0
    /\ mainTicks = 0

\* Navigation: `if (loading) return null`, then Login when there is no user,
\* else Home with Session above it once navigated to.
HomeShown == user /\ ~loading /\ ~mounted

\* The auth-state listener up to its first suspension: setUser(user), then
\* either fetchUserData is awaited (fetchUserDataSettles resumes the listener)
\* or setUserData(null) and setLoading(false).  The listener is notified once
\* at start with the stored user, then at every sign-in and sign-out; signOut
\* is offered by the selection screen, which is unmounted by it, and is
\* followed here once the profile read has settled.
onAuthStateChanged(signedIn) ==
    /\ IF signedIn
         THEN ~user
         ELSE (loading /\ ~user) \/ (HomeShown /\ userData # "null")
    /\ user' = signedIn
    /\ IF signedIn
         THEN UNCHANGED <<userData, loading, selectedDuration, selectedTrackId>>
         ELSE /\ userData' = "null"
              /\ loading' = FALSE
              /\ selectedDuration' = 60
              /\ selectedTrackId' = "focus1"
    /\ UNCHANGED <<sessions, screenVars>>

\* A duration button of the selection screen.
setSelectedDuration(d) ==
    /\ HomeShown
    /\ dialog = "none"
    /\ selectedDuration' = d
    /\ UNCHANGED <<user, loading, userData, selectedTrackId, sessions, screenVars>>

\* A row of MusicList: onSelectTrack(track.id).
onSelectTrack(id) ==
    /\ HomeShown
    /\ dialog = "none"
    /\ selectedTrackId' = id
    /\ UNCHANGED <<user, loading, userData, selectedDuration, sessions, screenVars>>

\* The start button.  Without a selected track: the alert 'Please select a
\* music track' and nothing else.  Otherwise navigate('Session', { duration:
\* selectedDuration, trackId: selectedTrackId }), which mounts SessionScreen:
\* its state and refs are initialised and its mount effect calls
\* initializeAudio() and startTimer().
handleStart ==
    /\ HomeShown
    /\ dialog = "none"
    /\ sessions < MaxSessions
    /\ IF selectedTrackId = NoTrack
         THEN /\ dialog' = "selectTrack"
              /\ UNCHANGED <<appVars, configVars, mounted, timeRemaining,
                             graceTimeRemaining, timerVars, audioVars, stops,
                             cleanupPc, appState, awaySeconds, graceTicks, mainTicks>>
         ELSE /\ sessions' = sessions + 1
              /\ duration' = selectedDuration
              /\ trackId' = selectedTrackId
              /\ premiumAtStart' = isPremium
              /\ mounted' = TRUE
              /\ timeRemaining' = InitialTimeRemaining(selectedDuration)
              /\ graceTimeRemaining' = Null
              /\ timerIntervalRef' = TRUE
              /\ liveMain' = TRUE
              /\ graceTimerRef' = FALSE
              /\ graceDue' = FALSE
              /\ soundRef' = FALSE
              /\ sound' = "none"
              /\ audioPc' = "loading"
              /\ audioAlert' = "none"
              /\ stops' = <<>>
              /\ cleanupPc' = "idle"
              /\ awaySeconds' = 0
              /\ graceTicks' = 0
              /\ mainTicks' = 0
              /\ UNCHANGED <<user, loading, userData, selectedDuration,
                             selectedTrackId, leaked, leakedDue, dialog, appState>>

AppNext ==
    \/ \E signedIn \in BOOLEAN : onAuthStateChanged(signedIn)
    \/ fetchUserDataSettles
    \/ \E d \in DURATION_OPTIONS : setSelectedDuration(d)
    \/ \E id \in musicTracks : onSelectTrack(id)
    \/ handleStart
    \/ initializeAudioSettles
    \/ DismissEarly
    \/ CleanupStopSettles
    \/ CleanupUnloadSettles

AppSpec == AppInit /\ [][AppNext]_vars

\* ------------------------------------------------------------------ outcomes
\* The alert stopSession raises: 'Session Complete!' or 'Session Failed'.
OutcomeAlert(success) == IF success THEN "Session Complete!" ELSE "Session Failed"

Terminal == stops # <<>>

FailureDecided == \E i \in DOMAIN stops : ~stops[i].success

\* isPremium has not changed since the session started, and will not.
ProfileSettled == premiumAtStart \/ userData = "free"

\* A step in which stopSession(false) is entered.
FailureStep == \E i \in DOMAIN stops' : i \notin DOMAIN stops /\ ~stops'[i].success

\* ==================================================================== claims

\* C1: stopSession is idempotent: within one session at most one terminal
\* outcome alert (success or failure) is ever raised.
C1_AtMostOneOutcome ==
    (mounted /\ duration > 0) => Cardinality(Alerted) <= 1

\* C2: a free user's excursion out of the foreground that is followed by
\* 'active' before 10 seconds have elapsed leaves the session running: while
\* fewer than 10 seconds have passed since the app left 'active', no step of a
\* running session enters stopSession(false).
C2_ReturnInTimeKeepsRunning ==
    [][ ( /\ ~isPremium /\ mounted /\ duration > 0
          /\ stops = <<>>
          /\ appState # "active"
          /\ awaySeconds < GRACE_PERIOD_SECONDS )
        => ~FailureStep ]_vars


\* C3: a free user's running session (profile read, not premium) whose app
\* has entered the background with more than 10 seconds left ends as Failed on
\* the 10th grace tick counted from that entry: the first stopSession(false)
\* is entered by the tick that takes graceTimeRemaining from 1 to 0 after 9
\* earlier ticks, never by an earlier one; and once the first period after the
\* entry has opened, fair ticking leads to that failure unless an 'active'
\* event arrives, the screen is dismissed or a further background entry arms
\* the countdown anew.
C3_EnteredWithTimeLeft ==
    /\ userData = "free" /\ mounted /\ stops = <<>>
    /\ appState # "active"
    /\ graceTimerRef /\ graceDue /\ graceTicks = 0
    /\ timeRemaining >= GRACE_PERIOD_SECONDS

C3_ArmedAnew ==
    /\ mounted /\ stops = <<>>
    /\ graceTimerRef /\ ~graceDue /\ graceTicks = 0

C4_PremiumNeverPenalised ==
    premiumAtStart =>
        /\ isPremium
        /\ ~graceTimerRef /\ ~graceDue
        /\ leaked = 0
        /\ graceTimeRemaining = Null
        /\ \A i \in DOMAIN stops :
              stops[i].success /\ stops[i].caller \in {"timer", "skip"}

\* A premium session that was sent to the background and ran to completion
\* there.
C4_Witness ==
    /\ premiumAtStart /\ mounted /\ duration > 0
    /\ appState = "background"
    /\ mainTicks = duration * SecondsPerMinute
    /\ Len(stops) = 1 /\ stops[1].caller = "timer" /\ stops[1].pc = "alerted"


\* C5: a skip request of a free user is rejected and changes nothing: the
\* step that answers it only raises the 'Premium Feature' alert, leaving the
\* countdown, the grace countdown, both timers, the audio handle and the
\* outcome untouched, and no stopSession is ever entered from a skip.
C5_SkipRejectedForFreeUser ==
    /\ [](~isPremium =>
            /\ dialog # "skipConfirm"
            /\ \A i \in DOMAIN stops : stops[i].caller # "skip")
    /\ [][ (~isPremium /\ dialog = "none" /\ dialog' # "none")
           => /\ dialog' = "premiumFeature"
              /\ UNCHANGED <<mounted, timeRemaining, graceTimeRemaining, timerVars,
                             audioVars, stops, cleanupPc>> ]_vars

\* The rejection answered a request made while a grace countdown was running.
C5_Witness ==
    /\ ~isPremium /\ mounted
    /\ dialog = "premiumFeature"
    /\ stops = <<>>
    /\ graceTimerRef /\ graceTimeRemaining = 4
    /\ liveMain /\ soundRef


\* C6: a confirmed skip of a premium user ends the session with an outcome of
\* its own, distinguishable from the one of a completed countdown.
C6_SkipOutcomeDistinct ==
    (mounted /\ duration > 0) =>
        \A i \in Alerted :
            stops[i].caller = "skip" => OutcomeAlert(stops[i].success) # OutcomeAlert(TRUE)

\* C7: for every duration d > 0 the countdown shows d*60 - k after k main
\* ticks, is never negative, and completion is signalled exactly once, by the
\* tick that makes k equal to d*60 and by no earlier one.
TimerStops == {i \in DOMAIN stops : stops[i].caller = "timer"}

C7_CountdownExact ==
    (mounted /\ duration > 0) =>
        /\ timeRemaining = duration * SecondsPerMinute - mainTicks
        /\ timeRemaining >= 0
        /\ Cardinality(TimerStops) <= 1
        /\ (TimerStops # {}) <=> (mainTicks = duration * SecondsPerMinute)

C7_Witness ==
    /\ mounted /\ duration = MaxDuration
    /\ mainTicks = duration * SecondsPerMinute
    /\ timeRemaining = 0
    /\ Len(stops) = 1 /\ stops[1].caller = "timer" /\ stops[1].pc = "alerted"

\* C8: once stopSession has been entered, every later app-state event is
\* ignored: it arms no grace interval and sets no graceTimeRemaining.
C8_EventsIgnoredAfterOutcome ==
    [][ (mounted /\ duration > 0 /\ stops # <<>> /\ appState' # appState)
        => UNCHANGED <<graceTimerRef, graceTimeRemaining, leaked>> ]_vars

\* C9: when the main countdown's completion is the first to enter stopSession
\* the session ends Completed and no Failed outcome follows: with no grace
\* interval armed since, no later step enters stopSession(false).
C9_CompletionFirstWins ==
    [][ (mounted /\ duration > 0 /\ stops # <<>> /\ stops[1].caller = "timer"
           /\ ~graceTimerRef)
        => ~FailureStep ]_vars

\* C10: after the session has ended or its screen has been dismissed, and
\* once every audio call has settled without an engine error, no sound loaded
\* for the session is left loaded or playing.
AudioQuiet ==
    /\ audioPc = "done"
    /\ audioAlert = "none"
    /\ cleanupPc \in {"idle", "done"}
    /\ \A i \in DOMAIN stops : stops[i].pc = "alerted"

C10_AudioReleased ==
    (duration > 0 /\ (stops # <<>> \/ ~mounted) /\ AudioQuiet)
        => sound \in {"none", "unloaded"}


\* C11: a rejection of stopAsync or unloadAsync inside stopSession does not
\* keep the session from its outcome: the one stopSession of a session is
\* either still awaiting the audio engine or has raised its outcome alert.
C11_TeardownFailureKeepsOutcome ==
    (mounted /\ duration > 0 /\ Len(stops) = 1)
        => stops[1].pc \in {"stopAsync", "unloadAsync", "alerted"}

C13_DecisionsUseStartValue ==
    [][ (mounted /\ duration > 0) =>
          /\ (dialog = "none" /\ dialog' # "none")
                => dialog' = IF premiumAtStart THEN "skipConfirm" ELSE "premiumFeature"
          /\ (appState # "active" /\ appState' = "active" /\ ~premiumAtStart)
                => ~graceTimerRef'
          /\ (appState' # appState /\ appState' # "active")
                => graceTimerRef' = ~premiumAtStart ]_vars


\* C14: graceTimeRemaining is present exactly while the session is in its
\* grace phase, i.e. not ended and with the grace interval armed; it is absent
\* in the foreground and after every terminal transition.
C14_GracePresentIffGracePhase ==
    (mounted /\ duration > 0 /\ userData = "free")
        => ((graceTimeRemaining # Null) <=> (stops = <<>> /\ graceTimerRef))


\* C15: at most one grace interval is armed at any instant: no scheduled
\* grace interval exists that graceTimerRef.current does not refer to.
C15_NoUnreferencedGraceInterval ==
    (mounted /\ duration > 0) => leaked = 0

\* C16: the first stopSession cancels both timers whichever path called it:
\* the step that enters it leaves neither the main interval nor any grace
\* interval scheduled, and nothing due to run.
C16_StopCancelsBothTimers ==
    [][ (mounted /\ duration > 0 /\ ProfileSettled /\ stops = <<>> /\ stops' # <<>>)
        => /\ ~liveMain' /\ ~timerIntervalRef'
           /\ ~graceTimerRef' /\ ~graceDue'
           /\ leaked' = 0 /\ leakedDue' = 0 ]_vars

\* C17: once stopSession has been entered, timeRemaining and
\* graceTimeRemaining never change again while the screen is shown.
C17_FrozenAfterOutcome ==
    [][ (mounted /\ mounted' /\ duration > 0 /\ ProfileSettled /\ stops # <<>>)
        => UNCHANGED <<timeRemaining, graceTimeRemaining>> ]_vars


\* C18: timeRemaining is monotone: while the screen is shown no step
\* increases or resets it and it stays within 0..duration*60; every main tick
\* takes exactly one second off it (down to 0), every period of a running
\* session is opened by a main tick, also while a grace interval is armed, and
\* an app-state event neither changes it nor stops or restarts the main
\* interval.
C18_CountdownMonotone ==
    /\ [][ (mounted /\ mounted') => timeRemaining' <= timeRemaining ]_vars
    /\ [](mounted => timeRemaining \in 0..(duration * SecondsPerMinute))
    /\ [][ (mounted /\ mounted' /\ mainTicks' # mainTicks)
           => /\ mainTicks' = mainTicks + 1
              /\ timeRemaining' = IF timeRemaining > 0 THEN timeRemaining - 1 ELSE 0 ]_vars
    /\ [][ (mounted /\ stops = <<>> /\ ~graceDue /\ graceDue')
           => mainTicks' = mainTicks + 1 ]_vars
    /\ [][ (appState' # appState)
           => UNCHANGED <<timeRemaining, liveMain, timerIntervalRef>> ]_vars

\* Six main ticks have run while the grace interval armed at the start of the
\* session was counting.
C18_Witness ==
    /\ mounted /\ userData = "free" /\ duration = MaxDuration
    /\ stops = <<>>
    /\ appState = "background"
    /\ graceTimerRef /\ leaked = 0
    /\ graceTicks = 6 /\ graceTimeRemaining = GRACE_PERIOD_SECONDS - 6
    /\ mainTicks = 6 /\ timeRemaining = duration * SecondsPerMinute - 6


\* C19: grace expiry is signalled exactly once: handleGracePeriodExpired, and
\* with it stopSession(false), runs at most once in a session.
GraceStops == {i \in DOMAIN stops : stops[i].caller = "grace"}

C19_GraceExpirySignalledOnce ==
    (mounted /\ duration > 0 /\ ProfileSettled) => Cardinality(GraceStops) <= 1

\* C20: whenever a grace interval is armed and an 'active' event is handled,
\* the interval is disarmed at once and graceTimeRemaining becomes absent.
C20_ForegroundCancelsGrace ==
    [][ (mounted /\ duration > 0 /\ graceTimerRef
           /\ appState # "active" /\ appState' = "active")
        => (~graceTimerRef' /\ ~graceDue' /\ graceTimeRemaining' = Null) ]_vars


\* C21: the audio teardown (stopAsync, then unloadAsync) is invoked at most
\* once for the loaded sound: stopSession invocations and the unmount cleanup
\* together never have more than one teardown under way (stated here for the
\* time the screen is shown).
TeardownsUnderWay ==
    Cardinality({i \in DOMAIN stops : stops[i].pc \in {"stopAsync", "unloadAsync"}})
      + (IF cleanupPc \in {"stopAsync", "unloadAsync"} THEN 1 ELSE 0)

C21_TeardownAtMostOnce ==
    (mounted /\ duration > 0 /\ ProfileSettled) => TeardownsUnderWay <= 1


C23_NoOutcomeAfterUnmount ==
    [][ (~mounted /\ duration > 0 /\ userData = "free" /\ leaked = 0)
        => Alerted' \subseteq Alerted ]_vars


\* C24: premium treatment is never granted without a positive profile read:
\* while userData is absent the session treats the user as non-premium, so a
\* background entry arms the grace countdown, a skip request is answered by
\* the 'Premium Feature' alert and no skip ends the session.
C24_AbsentProfileIsNotPremium ==
    /\ [](userData = "null" =>
            /\ ~isPremium
            /\ dialog # "skipConfirm"
            /\ \A i \in DOMAIN stops : stops[i].caller # "skip")
    /\ [][ (userData = "null" /\ appState' # appState /\ appState' # "active")
           => (graceTimerRef' /\ graceTimeRemaining' = GRACE_PERIOD_SECONDS) ]_vars
    /\ [][ (userData = "null" /\ dialog = "none" /\ dialog' # "none")
           => dialog' = "premiumFeature" ]_vars

\* With the profile still absent the grace countdown is running in the
\* background and a skip request has been rejected.
C24_Witness ==
    /\ userData = "null" /\ mounted /\ duration > 0
    /\ stops = <<>>
    /\ appState = "background"
    /\ graceTimerRef /\ graceTimeRemaining = GRACE_PERIOD_SECONDS - 1
    /\ dialog = "premiumFeature"


\* C25: whenever the authenticated screens are reachable (a user is present
\* and loading is false) the profile has been resolved (userData is not
\* null), so no session is started with the premium flag unresolved.
C25_ProfileResolvedWhenAuthenticated ==
    (user /\ ~loading) => userData # "null"


\* C26: every session entered from the selection screen has a track id of the
\* catalog and a duration out of {30, 60, 90, 120} minutes, both as selected,
\* and its countdown starts at exactly 60 times the selected minutes; no step
\* taken without a selected track mounts the session screen.
C26_SessionParametersFromSelection ==
    /\ [](mounted => /\ trackId \in musicTracks
                     /\ getTrackAssetById(trackId)
                     /\ duration \in DURATION_OPTIONS)
    /\ [][ (~mounted /\ mounted')
           => /\ duration' = selectedDuration
              /\ trackId' = selectedTrackId
              /\ timeRemaining' = 60 * selectedDuration
              /\ dialog' = "none" ]_vars
    /\ [][ selectedTrackId = NoTrack
           => (mounted' = mounted /\ sessions' = sessions) ]_vars

\* A session of 120 minutes with the second track of the catalog has been
\* entered and counts from 7200 seconds.
C26_Witness ==
    /\ mounted /\ sessions = 1
    /\ selectedDuration = 120 /\ duration = 120
    /\ selectedTrackId = "focus2" /\ trackId = "focus2"
    /\ timeRemaining = 7200
=============================================================================
